---- MODULE Spec2Model ----
(***************************************************************************)
(* Model of the git push gate hook (git-push-gate.js): a PreToolUse hook   *)
(* that reads one JSON payload from stdin, filters for `git push`, runs    *)
(* six local CI checks in sequence and emits an allow/block decision.      *)
(*                                                                         *)
(* Text is modelled as a sequence of atoms (short strings).  The atom      *)
(* alphabets are chosen so that no concatenation of atoms forms a keyword  *)
(* that is not itself an atom; a regular expression of the source is then  *)
(* evaluated exactly by looking at whole atoms.                            *)
(***************************************************************************)
EXTENDS Integers, Sequences, FiniteSets, TLC

(***************************************************************************)
(* Bounds                                                                  *)
(***************************************************************************)
MaxCmdLen == 3
MaxBranchLen == 3
MaxCommits == 2
MaxInvocations == 2

(***************************************************************************)
(* Generic sequence helpers                                                *)
(***************************************************************************)
SeqsUpTo(S, n) == UNION {[1..k -> S] : k \in 0..n}

RECURSIVE Flatten(_)
Flatten(ss) == IF ss = <<>> THEN <<>> ELSE Head(ss) \o Flatten(Tail(ss))

\* s.includes(sub) / "message contains": sub occurs contiguously in s
Contains(s, sub) ==
  \E i \in 0..(Len(s) - Len(sub)) : \A j \in 1..Len(sub) : s[i + j] = sub[j]

WhiteSpace == {" ", "\t", "\n"}

\* String.prototype.trim on atom text
RECURSIVE TrimLeft(_)
TrimLeft(s) ==
  IF s # <<>> /\ Head(s) \in WhiteSpace THEN TrimLeft(Tail(s)) ELSE s

RECURSIVE TrimRight(_)
TrimRight(s) ==
  IF s # <<>> /\ s[Len(s)] \in WhiteSpace
  THEN TrimRight(SubSeq(s, 1, Len(s) - 1)) ELSE s

Trim(s) == TrimRight(TrimLeft(s))

(***************************************************************************)
(* The stdin payload: JSON text as a token sequence, and JSON.parse        *)
(***************************************************************************)
QUOTE == "\""
OPEN_TOOL_INPUT == "{\"tool_input\":"
OPEN_COMMAND == "{\"command\":"
CLOSE == "}"

\* atoms a command string is made of
CmdAtoms == {"git", "GIT", "legit", " ", "\t", "push", "Push", "pushit.sh", "origin"}

\* further atoms, used by longer commands
ArgAtoms == {"feature/x", "--force"}

\* JSON literals that are complete values in one token
JsonLiterals == {"null", "0", "5", "true", "false", "[1]", "{}"}

JsKind(tok) ==
  CASE tok = "null" -> "null"
    [] tok \in {"0", "5"} -> "number"
    [] tok \in {"true", "false"} -> "boolean"
    [] tok = "[1]" -> "array"
    [] OTHER -> "object"

\* JavaScript truthiness of a literal
JsTruthy(tok) == tok \notin {"null", "0", "false"}

Undefined == [ok |-> TRUE, k |-> "undefined", truthy |-> FALSE, s |-> <<>>]
SyntaxError == [ok |-> FALSE, k |-> "undefined", truthy |-> FALSE, s |-> <<>>]
JsString(s) == [ok |-> TRUE, k |-> "string", truthy |-> (s # <<>>), s |-> s]
JsLiteral(tok) ==
  [ok |-> TRUE, k |-> JsKind(tok), truthy |-> JsTruthy(tok), s |-> <<>>]

\* the value of the "command" member
ParseCommandValue(toks) ==
  IF Len(toks) = 1 /\ toks[1] \in JsonLiterals THEN JsLiteral(toks[1])
  ELSE IF /\ Len(toks) >= 2
          /\ toks[1] = QUOTE
          /\ toks[Len(toks)] = QUOTE
          /\ \A i \in 2..(Len(toks) - 1) : toks[i] \in CmdAtoms \cup ArgAtoms
       THEN JsString(SubSeq(toks, 2, Len(toks) - 1))
       ELSE SyntaxError

\* the value of the "tool_input" member, with its "command" member
ParseToolInputValue(toks) ==
  IF Len(toks) = 1 /\ toks[1] \in JsonLiterals
  THEN [v |-> JsLiteral(toks[1]), command |-> Undefined]
  ELSE IF Len(toks) >= 3 /\ toks[1] = OPEN_COMMAND /\ toks[Len(toks)] = CLOSE
       THEN LET c == ParseCommandValue(SubSeq(toks, 2, Len(toks) - 1))
            IN  IF c.ok THEN [v |-> JsLiteral("{}"), command |-> c]
                ELSE [v |-> SyntaxError, command |-> Undefined]
       ELSE [v |-> SyntaxError, command |-> Undefined]

NoToolInput == [v |-> Undefined, command |-> Undefined]

\* JSON.parse(inputData): ok = FALSE stands for the SyntaxError it throws
JSONparse(toks) ==
  IF Len(toks) = 1 /\ toks[1] \in JsonLiterals
  THEN [v |-> JsLiteral(toks[1]), tool_input |-> NoToolInput]
  ELSE IF Len(toks) >= 3 /\ toks[1] = OPEN_TOOL_INPUT /\ toks[Len(toks)] = CLOSE
       THEN LET t == ParseToolInputValue(SubSeq(toks, 2, Len(toks) - 1))
            IN  IF t.v.ok THEN [v |-> JsLiteral("{}"), tool_input |-> t]
                ELSE [v |-> SyntaxError, tool_input |-> NoToolInput]
       ELSE [v |-> SyntaxError, tool_input |-> NoToolInput]

\* JSON.stringify of a command string inside the hook payload
PayloadText(cmd) ==
  <<OPEN_TOOL_INPUT, OPEN_COMMAND, QUOTE>> \o cmd \o <<QUOTE, CLOSE, CLOSE>>

(***************************************************************************)
(* Trigger filter: command.match(/git\s+push/i)                            *)
(***************************************************************************)
\* the /i flag: case folding of an atom
Lower(a) ==
  CASE a = "GIT" -> "git"
    [] a = "Push" -> "push"
    [] OTHER -> a

EndsWithGit(a) == a \in {"git", "legit"}
StartsWithPush(a) == a \in {"push", "pushit.sh"}
IsSpace(a) == a \in WhiteSpace

MatchGitPushCaseSensitive(cmd) ==
  \E i \in 1..Len(cmd) : \E j \in (i + 2)..Len(cmd) :
    /\ EndsWithGit(cmd[i])
    /\ StartsWithPush(cmd[j])
    /\ \A k \in (i + 1)..(j - 1) : IsSpace(cmd[k])

MatchGitPushNoSpace(cmd) ==
  \E i \in 1..Len(cmd) : \E j \in (i + 1)..Len(cmd) :
    /\ EndsWithGit(Lower(cmd[i]))
    /\ StartsWithPush(Lower(cmd[j]))
    /\ \A k \in (i + 1)..(j - 1) : IsSpace(cmd[k])

\* /git\s+push/i searched anywhere in the command
MatchGitPush(cmd) ==
  \E i \in 1..Len(cmd) : \E j \in (i + 2)..Len(cmd) :
    /\ EndsWithGit(Lower(cmd[i]))
    /\ StartsWithPush(Lower(cmd[j]))
    /\ \A k \in (i + 1)..(j - 1) : IsSpace(cmd[k])

\* lines 37-38: the command processInput extracts; threw = a TypeError that
\* the caller's catch turns into allowPush()
ExtractCommand(input) ==
  IF input.v.k = "null"
  THEN [threw |-> TRUE, command |-> Undefined]
  ELSE LET toolInput == IF input.tool_input.v.truthy
                        THEN input.tool_input ELSE NoToolInput
           command == IF toolInput.command.truthy
                      THEN toolInput.command ELSE JsString(<<>>)
       IN  [threw |-> FALSE, command |-> command]

\* lines 26-41: does the try block throw?  JSON.parse throws a SyntaxError,
\* input.tool_input on null and command.match on a non-string a TypeError
Throws(text) ==
  LET input == JSONparse(text)
  IN  \/ ~input.v.ok
      \/ ExtractCommand(input).threw
      \/ ExtractCommand(input).command.k # "string"

\* line 41: does the 'end' handler go on to run the checks?
Gated(text) ==
  /\ ~Throws(text)
  /\ MatchGitPush(ExtractCommand(JSONparse(text)).command.s)

(***************************************************************************)
(* Check results                                                           *)
(***************************************************************************)
CheckOrder == <<"branchNaming", "commitLint", "lint", "typecheck", "tests", "security">>
CheckNames == {CheckOrder[i] : i \in 1..Len(CheckOrder)}

ResultNoPassText(status, message) ==
  [status |-> status, message |-> IF status = "pass" THEN <<>> ELSE message]

Result(status, message) == [status |-> status, message |-> message]

\* lines 59-66
PendingResults == [c \in CheckNames |-> Result("pending", <<>>)]

\* the results object does not exist before line 59
NoResults == [c \in {} |-> Result("pending", <<>>)]

(***************************************************************************)
(* Check 1: branch naming (lines 73-87)                                    *)
(***************************************************************************)
BranchTypes ==
  {"feature", "bugfix", "hotfix", "release", "chore", "docs", "refactor", "test"}
protectedBranches == {<<"main">>, <<"master">>, <<"develop">>}

\* atoms a branch name is made of
BranchAtoms ==
  BranchTypes \cup {"main", "master", "develop", "/", "x", "X", "7", "-"}

\* every character of the atom is in [a-z0-9._-]
DescAtom(a) == a \in BranchAtoms \ {"/", "X"} \/ a = "unknown"

validBranchPatternAnyCase(b) ==
  /\ Len(b) >= 3
  /\ b[1] \in BranchTypes
  /\ b[2] = "/"
  /\ \A i \in 3..Len(b) : DescAtom(b[i]) \/ b[i] = "X"

\* /^(feature|...|test)\/[a-z0-9._-]+$/.test(b)
validBranchPattern(b) ==
  /\ Len(b) >= 3
  /\ b[1] \in BranchTypes
  /\ b[2] = "/"
  /\ \A i \in 3..Len(b) : DescAtom(b[i])

EXPECTED == "Expected: <type>/<description>\n"
TYPES == "Types: feature, bugfix, hotfix, release, chore, docs, refactor, test"

checkBranchNaming(currentBranch) ==
  IF currentBranch \in protectedBranches
  THEN Result("skip", <<"Protected branch", " (direct push)">>)
  ELSE IF validBranchPattern(currentBranch)
       THEN Result("pass", <<"Branch name follows convention">>)
       ELSE Result("fail", <<"Invalid branch name", ": ">> \o currentBranch
                            \o <<"\n", EXPECTED, TYPES>>)

(***************************************************************************)
(* Version control as seen by the hook's read queries                      *)
(***************************************************************************)
\* vcs = [ok: git answers queries, head: branch name, refs: which of
\*        main/master exist, ahead: subjects of main..HEAD,
\*        aheadMaster: subjects of master..HEAD,
\*        rangeOk: `git log <base>..HEAD` succeeds,
\*        recent: subjects of the last (at most) 10 commits]
GitCall(cmd, ok) == [cmd |-> cmd, kind |-> IF ok THEN "exit0" ELSE "error"]

\* what a git command does to the repository: rev-parse and log are
\* queries; a checkout moves HEAD
GitEffect(v, cmd) ==
  IF cmd \in {"git rev-parse --abbrev-ref HEAD", "git rev-parse --verify main",
              "git rev-parse --verify master", "git log"}
  THEN v
  ELSE IF cmd = "git checkout main" THEN [v EXCEPT !.head = <<"main">>] ELSE v

RECURSIVE RepoAfter(_, _)
RepoAfter(v, cs) ==
  IF cs = <<>> THEN v ELSE RepoAfter(GitEffect(v, Head(cs).cmd), Tail(cs))

\* lines 210-219
getCurrentBranch(v) ==
  IF v.ok THEN Trim(v.head \o <<"\n">>) ELSE <<"unknown">>

getMainBranchMasterFirst(v) ==
  IF v.ok /\ "master" \in v.refs THEN "master"
  ELSE IF v.ok /\ "main" \in v.refs THEN "main"
       ELSE "HEAD~10"

\* lines 444-458
getMainBranch(v) ==
  IF v.ok /\ "main" \in v.refs THEN "main"
  ELSE IF v.ok /\ "master" \in v.refs THEN "master"
       ELSE "HEAD~10"

RECURSIVE JoinWith(_, _)
JoinWith(lines, sep) ==
  IF lines = <<>> THEN <<>>
  ELSE IF Len(lines) = 1 THEN lines[1]
       ELSE lines[1] \o <<sep>> \o JoinWith(Tail(lines), sep)

\* String.prototype.split('\n')
RECURSIVE SplitLines(_, _)
SplitLines(text, cur) ==
  IF text = <<>> THEN <<cur>>
  ELSE IF Head(text) = "\n" THEN <<cur>> \o SplitLines(Tail(text), <<>>)
       ELSE SplitLines(Tail(text), Append(cur, Head(text)))

\* stdout of `git log --format=%s`: one subject per line
GitLogOutput(subjects) ==
  IF subjects = <<>> THEN <<>> ELSE JoinWith(subjects, "\n") \o <<"\n">>

\* the subjects `git log <base>..HEAD || git log -10` prints; the range
\* HEAD~10..HEAD, if there is one, is the last 10 commits
LogSubjects(v) ==
  IF getMainBranch(v) = "HEAD~10" \/ ~v.rangeOk THEN v.recent
  ELSE IF getMainBranch(v) = "main" THEN v.ahead ELSE v.aheadMaster

(***************************************************************************)
(* Check 2: commit lint (lines 221-256)                                    *)
(***************************************************************************)
CommitTypes ==
  {"feat", "fix", "docs", "style", "refactor", "perf", "test", "build", "ci",
   "chore", "revert"}

\* atoms a commit subject is made of; "(auth)" matches \([a-z0-9._-]+\),
\* "(Auth)" does not
CommitAtoms == {"feat", "fix", "oops", "(auth)", "(Auth)", "!", ": ", "add"}

\* /^(feat|...|revert)(\([a-z0-9._-]+\))?!?: .+$/.test(c)
conventionalPattern(c) ==
  /\ c # <<>>
  /\ c[1] \in CommitTypes
  /\ LET afterScope == IF Len(c) >= 2 /\ c[2] = "(auth)" THEN 3 ELSE 2
         afterBang == IF Len(c) >= afterScope /\ c[afterScope] = "!"
                      THEN afterScope + 1 ELSE afterScope
     IN  /\ Len(c) > afterBang
         /\ c[afterBang] = ": "

EXPECTED_FORMAT == "Expected format: type(scope): description\n"
COMMIT_TYPES ==
  "Types: feat, fix, docs, style, refactor, perf, test, build, ci, chore, revert"

InvalidLine(c) == <<"  - \"">> \o c \o <<"\"">>

checkCommitMessages(v) ==
  IF ~v.ok
  THEN Result("skip", <<"Could not check commits">>)
  ELSE LET commits == SelectSeq(SplitLines(Trim(GitLogOutput(LogSubjects(v))), <<>>),
                                LAMBDA l : l # <<>>)
           invalid == SelectSeq(commits, LAMBDA c : ~conventionalPattern(c))
       IN  IF commits = <<>>
           THEN Result("skip", <<"No new commits to check">>)
           ELSE IF invalid # <<>>
                THEN Result("fail",
                       <<"Invalid commit messages:\n">>
                       \o JoinWith([i \in 1..Len(invalid) |-> InvalidLine(invalid[i])], "\n")
                       \o <<"\n\n", EXPECTED_FORMAT, COMMIT_TYPES>>)
                ELSE Result("pass", <<ToString(Len(commits)),
                                      " commit(s) follow conventional format">>)

CommitLintCallsWithCheckout(v) ==
  <<GitCall("git checkout main", v.ok), GitCall("git log", v.ok)>>

\* the git queries checkCommitMessages issues
CommitLintCalls(v) ==
  IF v.ok /\ "main" \in v.refs
  THEN <<GitCall("git rev-parse --verify main", TRUE), GitCall("git log", TRUE)>>
  ELSE IF v.ok /\ "master" \in v.refs
       THEN <<GitCall("git rev-parse --verify main", FALSE),
              GitCall("git rev-parse --verify master", TRUE),
              GitCall("git log", TRUE)>>
       ELSE <<GitCall("git rev-parse --verify main", FALSE),
              GitCall("git rev-parse --verify master", FALSE),
              GitCall("git log", v.ok)>>

(***************************************************************************)
(* Project manifest and external tools                                     *)
(***************************************************************************)
\* manifest = [exists: package.json is there,
\*             parse: what JSON.parse(readFileSync(..)) gives,
\*             lint/typecheck: scripts.lint / scripts.typecheck declared,
\*             eslint/typescript: declared as a (dev)dependency,
\*             test: scripts.test]
Manifest(exists, parse, lint, eslint, typecheck, typescript, test) ==
  [exists |-> exists, parse |-> parse, lint |-> lint, eslint |-> eslint,
   typecheck |-> typecheck, typescript |-> typescript, test |-> test]

NoManifest == Manifest(FALSE, "object", FALSE, FALSE, FALSE, FALSE, "none")
BareManifest == Manifest(TRUE, "object", FALSE, FALSE, FALSE, FALSE, "none")

\* reading the manifest throws on invalid JSON, and dereferencing it throws
\* when the file holds the JSON value null
ManifestThrows(m) == m.parse # "object"
ManifestError(m) ==
  IF m.parse = "syntaxerror" THEN "Unexpected token in JSON"
  ELSE "Cannot read properties of null"

\* what spawnSync returns; it reports a failed invocation in the result
\* (status null, error set) and does not throw
Spawned(kind, exited, status, stdout, stderr) ==
  [kind |-> kind, exited |-> exited, status |-> status,
   stdout |-> stdout, stderr |-> stderr]

NotSpawned == Spawned("none", FALSE, 0, <<>>, <<>>)

NOT_FOUND == "sh: 1: command not found"

\* the outputs of less than 500 characters
Brief(outputs) == {o \in outputs : o[1] # "<496 chars>"}

SpawnResults(outputs) ==
  {Spawned("exit0", TRUE, 0, <<>>, <<>>),
   Spawned("exit1", TRUE, 1, <<>>, <<>>),
   \* shell: true -> a missing binary is the shell's exit status 127
   Spawned("missing", TRUE, 127, <<>>, <<NOT_FOUND>>),
   \* killed at the timeout: status null, whatever was printed so far
   Spawned("timeout", FALSE, 0, <<>>, <<>>),
   \* the subprocess was killed by a signal
   Spawned("crash", FALSE, 0, <<>>, <<>>)}
  \cup {Spawned("exit1", TRUE, 1, o, <<>>) : o \in outputs}
  \cup {Spawned("exit1", TRUE, 1, <<>>, o) : o \in Brief(outputs)}
  \cup {Spawned("timeout", FALSE, 0, o, <<>>) : o \in Brief(outputs)}
  \* both streams written
  \cup {Spawned("exit1", TRUE, 1, <<"2 low">>, <<"npm WARN ", "critical">>)}

ExecutionErrors == {"missing", "timeout", "crash"}

\* result.status === 0
StatusZero(r) == r.exited /\ r.status = 0

\* result.stdout || result.stderr || dflt
Output(r, dflt) ==
  IF r.stdout # <<>> THEN r.stdout
  ELSE IF r.stderr # <<>> THEN r.stderr ELSE dflt

ToolOutputs == {<<"error TS1">>, <<"<496 chars>", "error TS1">>}
AuditOutputs ==
  {<<"2 low">>, <<"1 ", "high">>, <<"critical">>, <<"<496 chars>", "high", "critical">>}

(***************************************************************************)
(* Check 3: lint (lines 258-311)                                           *)
(***************************************************************************)
LintCommandToolFirst(m) ==
  IF ~m.exists \/ ManifestThrows(m) THEN "none"
  ELSE IF m.eslint
       THEN "npx eslint . --ext .js,.jsx,.ts,.tsx --max-warnings 0"
       ELSE IF m.lint THEN "npm run lint" ELSE "none"

LintCommand(m) ==
  IF ~m.exists \/ ManifestThrows(m) THEN "none"
  ELSE IF m.lint THEN "npm run lint"
       ELSE IF m.eslint
            THEN "npx eslint . --ext .js,.jsx,.ts,.tsx --max-warnings 0"
            ELSE "none"

runLint(m, r) ==
  IF ~m.exists THEN Result("skip", <<"No package.json found">>)
  ELSE IF ManifestThrows(m)
       THEN Result("skip", <<"Lint check error: ", ManifestError(m)>>)
       ELSE IF m.lint
            THEN IF StatusZero(r) THEN Result("pass", <<"Lint passed">>)
                 ELSE Result("fail", <<"Lint errors:\n">> \o Output(r, <<"Unknown error">>))
            ELSE IF m.eslint
                 THEN IF StatusZero(r) THEN Result("pass", <<"ESLint passed">>)
                      ELSE Result("fail", <<"ESLint errors:\n">>
                                          \o Output(r, <<"Unknown error">>))
                 ELSE Result("skip", <<"No lint script or ESLint configured">>)

(***************************************************************************)
(* Check 4: typecheck (lines 313-372)                                      *)
(***************************************************************************)
TypeCheckCommandToolFirst(tsconfig, m) ==
  IF ~tsconfig THEN "none"
  ELSE IF m.exists /\ ManifestThrows(m) THEN "none"
       ELSE IF m.exists /\ m.typescript THEN "npx tsc --noEmit"
            ELSE IF m.exists /\ m.typecheck THEN "npm run typecheck"
                 ELSE "none"

TypeCheckCommand(tsconfig, m) ==
  IF ~tsconfig THEN "none"
  ELSE IF m.exists /\ ManifestThrows(m) THEN "none"
       ELSE IF m.exists /\ m.typecheck THEN "npm run typecheck"
            ELSE IF m.exists /\ m.typescript THEN "npx tsc --noEmit"
                 ELSE "none"

runTypeCheck(tsconfig, m, r) ==
  IF ~tsconfig THEN Result("skip", <<"No tsconfig.json found">>)
  ELSE IF m.exists /\ ManifestThrows(m)
       THEN Result("skip", <<"TypeScript check error: ", ManifestError(m)>>)
       ELSE IF m.exists /\ (m.typecheck \/ m.typescript)
            THEN IF StatusZero(r) THEN Result("pass", <<"TypeScript check passed">>)
                 ELSE Result("fail", <<"TypeScript errors:\n">>
                                     \o Output(r, <<"Unknown error">>))
            ELSE Result("skip", <<"TypeScript not installed">>)

(***************************************************************************)
(* Check 5: tests (lines 374-408)                                          *)
(***************************************************************************)
\* scripts.test.includes(..) on a non-string throws a TypeError
TestsThrow(m) == ManifestThrows(m) \/ m.test = "nonstring"
TestsError(m) ==
  IF ManifestThrows(m) THEN ManifestError(m)
  ELSE "scripts.test.includes is not a function"

TestsCommandRunsPlaceholder(m) ==
  IF ~m.exists \/ TestsThrow(m) \/ m.test = "none"
  THEN "none" ELSE "CI=true npm test"

TestsCommand(m) ==
  IF ~m.exists \/ TestsThrow(m) \/ m.test \in {"none", "placeholder"}
  THEN "none" ELSE "CI=true npm test"

runTestsFailsWithoutManifest(m, r) ==
  IF ~m.exists THEN Result("fail", <<"No package.json found">>)
  ELSE IF TestsThrow(m) THEN Result("skip", <<"Test error: ", TestsError(m)>>)
       ELSE IF m.test \in {"none", "placeholder"}
            THEN Result("skip", <<"No test script configured">>)
            ELSE IF StatusZero(r) THEN Result("pass", <<"All tests passed">>)
                 ELSE Result("fail", <<"Test failures:\n">>
                                     \o Output(r, <<"Unknown error">>))

runTests(m, r) ==
  IF ~m.exists THEN Result("skip", <<"No package.json found">>)
  ELSE IF TestsThrow(m) THEN Result("skip", <<"Test error: ", TestsError(m)>>)
       ELSE IF m.test \in {"none", "placeholder"}
            THEN Result("skip", <<"No test script configured">>)
            ELSE IF StatusZero(r) THEN Result("pass", <<"All tests passed">>)
                 ELSE Result("fail", <<"Test failures:\n">>
                                     \o Output(r, <<"Unknown error">>))

(***************************************************************************)
(* Check 6: security scan (lines 410-442)                                  *)
(***************************************************************************)
SliceLimit == 500

\* number of characters of an output atom
AtomLen(a) ==
  CASE a = "<496 chars>" -> 496
    [] a = "high" -> 4
    [] a = "critical" -> 8
    [] a = "2 low" -> 5
    [] a = "1 " -> 2
    [] OTHER -> 24

RECURSIVE TextLen(_)
TextLen(t) == IF t = <<>> THEN 0 ELSE AtomLen(Head(t)) + TextLen(Tail(t))

\* output.slice(0, n); the outputs of the model are cut between atoms
SliceNone(t, n) == t

RECURSIVE Slice(_, _)
Slice(t, n) ==
  IF t = <<>> \/ AtomLen(Head(t)) > n THEN <<>>
  ELSE <<Head(t)>> \o Slice(Tail(t), n - AtomLen(Head(t)))

\* output.includes(word)
Includes(t, word) == \E i \in 1..Len(t) : t[i] = word

SecurityCommand(m) ==
  IF ~m.exists THEN "none" ELSE "npm audit --audit-level=high"

runSecurityScan(m, r) ==
  IF ~m.exists THEN Result("skip", <<"No package.json found">>)
  ELSE IF StatusZero(r)
       THEN Result("pass", <<"No high/critical vulnerabilities">>)
       ELSE LET output == Output(r, <<>>)
            IN  IF Includes(output, "high") \/ Includes(output, "critical")
                THEN Result("fail", <<"Security vulnerabilities found:\n">>
                                    \o Slice(output, SliceLimit))
                ELSE Result("pass", <<"No high/critical vulnerabilities">>)

(***************************************************************************)
(* Aggregation and host payload (lines 144-204, 460-491)                   *)
(***************************************************************************)
\* the identifier split before each upper-case letter
CamelWords(name) ==
  CASE name = "branchNaming" -> <<"branch", "Naming">>
    [] name = "commitLint" -> <<"commit", "Lint">>
    [] OTHER -> <<name>>

StartsUpper(w) == w \in {"Naming", "Lint"}

UpperFirst(w) ==
  CASE w = "branch" -> "Branch"
    [] w = "commit" -> "Commit"
    [] w = "lint" -> "Lint"
    [] w = "typecheck" -> "Typecheck"
    [] w = "tests" -> "Tests"
    [] w = "security" -> "Security"
    [] OTHER -> w

\* name.replace(/([A-Z])/g, ' $1')
RECURSIVE SpaceBeforeUpper(_)
SpaceBeforeUpper(ws) ==
  IF ws = <<>> THEN <<>>
  ELSE (IF StartsUpper(Head(ws)) THEN <<" ", Head(ws)>> ELSE <<Head(ws)>>)
       \o SpaceBeforeUpper(Tail(ws))

\* lines 460-462, computed once for the six names
DisplayNames ==
  [name \in CheckNames |->
     LET spaced == SpaceBeforeUpper(CamelWords(name))
     IN  Trim(<<UpperFirst(Head(spaced))>> \o Tail(spaced))]

formatName(name) == DisplayNames[name]

\* lines 144-156: the partition, in Object.entries order
NamesWithSkipToo(res) ==
  SelectSeq(CheckOrder, LAMBDA c : res[c].status \in {"fail", "skip"})

failedInReverse(res) ==
  LET f == SelectSeq(CheckOrder, LAMBDA c : res[c].status = "fail")
  IN  [i \in 1..Len(f) |-> f[Len(f) + 1 - i]]

failedExceptSecurity(res) ==
  SelectSeq(CheckOrder, LAMBDA c : res[c].status = "fail" /\ c # "security")

failed(res) == SelectSeq(CheckOrder, LAMBDA c : res[c].status = "fail")
passed(res) == SelectSeq(CheckOrder, LAMBDA c : res[c].status = "pass")
skipped(res) ==
  SelectSeq(CheckOrder, LAMBDA c : res[c].status \notin {"fail", "pass"})

Payload(continue, context) ==
  [continue |-> continue, hookEventName |-> "PreToolUse",
   additionalContext |-> context]

\* lines 469-479 and 481-491: the payload and the exit code
allowPush == [payload |-> Payload(TRUE, <<>>), code |-> 0]

blockPushExitOne(reason) == [payload |-> Payload(FALSE, reason), code |-> 1]

blockPush(reason) == [payload |-> Payload(FALSE, reason), code |-> 2]

catchHandlerBlocks == blockPush(<<"Invalid hook input">>)

\* lines 29-31: catch (e) { allowPush(); }
catchHandler == allowPush

FIX_THESE == "Fix these issues before pushing to ensure GitHub Actions will pass."

BlockReasonFirstOnly(res) ==
  <<"Local CI failed: ">> \o formatName(failed(res)[1]) \o <<"\n\n", FIX_THESE>>

\* lines 187-190
BlockReason(res) ==
  <<"Local CI failed: ">>
  \o JoinWith([i \in 1..Len(failed(res)) |-> formatName(failed(res)[i])], ", ")
  \o <<"\n\n", FIX_THESE>>

(***************************************************************************)
(* The diagnostic stream: one sequence of atoms per console.error line     *)
(***************************************************************************)
RULE == <<"=====">>
BLANK == <<>>

\* lines 50-57
HeaderLines(branch) ==
  <<  <<"\n">>, RULE, <<"GIT PUSH GATE - LOCAL CI">>, RULE, BLANK,
      <<"Branch: ">> \o branch,
      <<"Running local CI checks before push...">>, BLANK >>

ProgressLine(c) ==
  CASE c = "branchNaming" -> <<"[1/6] Checking branch naming convention...">>
    [] c = "commitLint" -> <<"[2/6] Checking commit messages...">>
    [] c = "lint" -> <<"[3/6] Running linter...">>
    [] c = "typecheck" -> <<"[4/6] Running TypeScript check...">>
    [] c = "tests" -> <<"[5/6] Running tests...">>
    [] OTHER -> <<"[6/6] Running security scan...">>

\* result.status.toUpperCase()
ToUpperCase(st) ==
  CASE st = "pass" -> "PASS"
    [] st = "fail" -> "FAIL"
    [] st = "skip" -> "SKIP"
    [] OTHER -> "PENDING"

\* console.error and console.log on the pair of output streams
consoleError(s, lines) == [s EXCEPT !.err = @ \o lines]
consoleLog(s, item) == [s EXCEPT !.out = Append(@, item)]

\* lines 464-467: the line logResult prints
logResult(result) ==
  <<"   ", (IF result.status = "pass" THEN "(check)"
            ELSE IF result.status = "fail" THEN "(cross)" ELSE "(next)"),
    " ", ToUpperCase(result.status)>>

writeLogResultToStdout(s, result) == consoleLog(s, logResult(result))

\* lines 464-467: logResult prints with console.error
writeLogResult(s, result) == consoleError(s, <<logResult(result)>>)

SeqMap(Op(_), s) == [i \in 1..Len(s) |-> Op(s[i])]

\* lines 138-142 and 158-169
SummaryLines(res) ==
  <<BLANK, RULE, <<"LOCAL CI RESULTS">>, RULE, BLANK>>
  \o SeqMap(LAMBDA c : <<"  (check) ">> \o formatName(c) \o <<": PASSED">>,
            passed(res))
  \o SeqMap(LAMBDA c : <<"  (next)  ">> \o formatName(c) \o <<": SKIPPED (">>
                       \o res[c].message \o <<")">>,
            skipped(res))
  \o SeqMap(LAMBDA c : <<"  (cross) ">> \o formatName(c) \o <<": FAILED">>,
            failed(res))
  \o <<BLANK>>

\* lines 179-183: one section per failed check
FailureSection(res, c) ==
  << <<"--- ">> \o formatName(c) \o <<" ---">>, res[c].message, BLANK >>

BlockedLinesFirstOnly(res) ==
  <<RULE, <<"PUSH BLOCKED">>, RULE, BLANK,
    <<ToString(Len(failed(res))), " check(s) failed. Fix the issues before pushing.">>,
    BLANK>>
  \o FailureSection(res, Head(failed(res)))
  \o <<RULE>>

\* lines 172-185
BlockedLines(res) ==
  <<RULE, <<"PUSH BLOCKED">>, RULE, BLANK,
    <<ToString(Len(failed(res))), " check(s) failed. Fix the issues before pushing.">>,
    BLANK>>
  \o Flatten(SeqMap(LAMBDA c : FailureSection(res, c), failed(res)))
  \o <<RULE>>

\* lines 194-201
AuthorizedLines ==
  <<RULE, <<"PUSH AUTHORIZED">>, RULE, BLANK,
    <<"All local CI checks passed. Push will proceed.">>,
    <<"GitHub Actions should pass based on these pre-checks.">>,
    BLANK, RULE>>

(***************************************************************************)
(* State                                                                   *)
(***************************************************************************)
VARIABLES
  pc,             \* position of the process
  unread,         \* stdin text not yet delivered by a 'data' event
  inputData,      \* line 22
  vcs,            \* the repository: branches and commits
  manifest,       \* package.json
  tsconfig,       \* tsconfig.json exists
  currentBranch,  \* line 48
  results,        \* line 59
  executed,       \* the checks run so far, in order
  calls,          \* the external commands issued so far, with their outcome
  spawned,        \* what the latest check got from spawnSync, if it called it
  stdout,         \* payloads written with console.log
  stderr,         \* lines written with console.error
  exitCode,       \* <<>> while running, <<code>> after process.exit(code)
  earlier         \* exit codes of the earlier invocations, oldest first

vars == <<pc, unread, inputData, vcs, manifest, tsconfig, currentBranch,
          results, executed, calls, spawned, stdout, stderr, exitCode, earlier>>

Streams == [out |-> stdout, err |-> stderr]

repo == <<vcs, manifest, tsconfig>>

(***************************************************************************)
(* Initial states                                                          *)
(***************************************************************************)
Vcs(ok, head, refs, ahead, recent) ==
  [ok |-> ok, head |-> head, refs |-> refs, ahead |-> ahead, recent |-> recent,
   aheadMaster |-> ahead, rangeOk |-> TRUE]

GoodCommit == <<"feat", "(auth)", ": ", "add">>
BadCommit == <<"oops", "add">>
FeatureX == <<"feature", "/", "x">>

PushText == PayloadText(<<"git", " ", "push">>)

Commands == SeqsUpTo(CmdAtoms, MaxCmdLen)

\* payloads that are not JSON, or JSON without a string tool_input.command
MalformedTexts ==
  {<<>>, <<"{">>, <<"git", " ", "push">>,
   <<OPEN_TOOL_INPUT, OPEN_COMMAND, QUOTE, "git", " ", "push", QUOTE, CLOSE>>,
   <<OPEN_TOOL_INPUT, OPEN_COMMAND, "git", " ", "push", CLOSE, CLOSE>>}
  \cup {<<l>> : l \in JsonLiterals}
  \cup {<<OPEN_TOOL_INPUT, l, CLOSE>> : l \in JsonLiterals}
  \cup {<<OPEN_TOOL_INPUT, OPEN_COMMAND, l, CLOSE, CLOSE>> : l \in JsonLiterals}

Texts == MalformedTexts \cup {PayloadText(c) : c \in Commands}

Repos ==
  {Vcs(FALSE, <<"main">>, {}, <<>>, <<>>),
   Vcs(TRUE, <<"main">>, {"main"}, <<>>, <<GoodCommit>>),
   Vcs(TRUE, FeatureX, {"main", "master"}, <<GoodCommit>>, <<GoodCommit, BadCommit>>),
   Vcs(TRUE, FeatureX, {"master"}, <<GoodCommit, BadCommit>>, <<GoodCommit>>),
   Vcs(TRUE, <<"x", "-", "X">>, {}, <<GoodCommit>>, <<BadCommit>>)}

Manifests ==
  {NoManifest, BareManifest,
   Manifest(TRUE, "syntaxerror", FALSE, FALSE, FALSE, FALSE, "none"),
   Manifest(TRUE, "null", FALSE, FALSE, FALSE, FALSE, "none"),
   Manifest(TRUE, "object", TRUE, TRUE, TRUE, TRUE, "real"),
   Manifest(TRUE, "object", FALSE, TRUE, FALSE, TRUE, "placeholder"),
   Manifest(TRUE, "object", FALSE, FALSE, FALSE, FALSE, "nonstring")}

\* the atoms that are combined freely; every type and every protected name
\* is tried on its own and as <type>/x
BranchCoreAtoms == {"feature", "test", "main", "/", "x", "X", "7", "-"}

BranchNames ==
  (SeqsUpTo(BranchCoreAtoms, MaxBranchLen) \ {<<>>})
  \cup {<<a>> : a \in BranchAtoms}
  \cup {<<t, "/", "x">> : t \in BranchAtoms}

Start(text, v, m, ts) ==
  /\ pc = "reading"
  /\ unread = text
  /\ inputData = <<>>
  /\ vcs = v
  /\ manifest = m
  /\ tsconfig = ts
  /\ currentBranch = <<>>
  /\ results = NoResults
  /\ executed = <<>>
  /\ calls = <<>>
  /\ spawned = NotSpawned
  /\ stdout = <<>>
  /\ stderr = <<>>
  /\ exitCode = <<>>
  /\ earlier = <<>>

\* any payload, in one repository
InitInputs ==
  \E text \in Texts :
    Start(text, Vcs(TRUE, FeatureX, {"main"}, <<GoodCommit>>, <<GoodCommit>>),
          BareManifest, FALSE)

\* a push, in any of the repositories and toolchains
InitRepos ==
  \E v \in Repos, m \in Manifests, ts \in BOOLEAN : Start(PushText, v, m, ts)

\* a push, on any current branch
InitBranches ==
  \E b \in BranchNames :
    Start(PushText, Vcs(TRUE, b, {"main"}, <<GoodCommit>>, <<GoodCommit>>),
          NoManifest, FALSE)

\* a push, with any list of commits ahead of main; the empty subject is
\* that of a commit made with --allow-empty-message
Subjects ==
  {<<>>, GoodCommit, BadCommit, <<"fix", ": ", "add">>,
   <<"feat", "!", ": ", "add">>, <<"feat", "(Auth)", ": ", "add">>}

CommitLists == SeqsUpTo(Subjects, MaxCommits)

InitCommits ==
  \E cs \in CommitLists :
    Start(PushText, Vcs(TRUE, FeatureX, {"main"}, cs, <<GoodCommit>>),
          NoManifest, FALSE)

\* a push of feature/x, one commit "feat: add" ahead, a manifest that declares
\* no script and no tool
ScenarioCommit == <<"feat", ": ", "add">>

InitScenario ==
  \E ts \in BOOLEAN :
    Start(PushText, Vcs(TRUE, FeatureX, {"main"}, <<ScenarioCommit>>, <<GoodCommit>>),
          BareManifest, ts)

\* the commands the trigger filter is documented with
ExampleCommands ==
  {<<"git", " ", "push", " ", "origin", " ", "feature/x", " ", "--force">>,
   <<"pushit.sh">>}

InitExamples ==
  \E c \in ExampleCommands :
    Start(PayloadText(c), Vcs(TRUE, FeatureX, {"main"}, <<GoodCommit>>, <<GoodCommit>>),
          NoManifest, FALSE)

\* a push of a branch whose commits ahead of main, ahead of master and
\* most recent commits differ; the range query succeeds or fails
RangeRepos ==
  {[Vcs(TRUE, FeatureX, refs, <<GoodCommit>>, <<GoodCommit, GoodCommit>>)
      EXCEPT !.aheadMaster = <<BadCommit>>, !.rangeOk = ok] :
     refs \in SUBSET {"main", "master"}, ok \in BOOLEAN}

InitRanges ==
  \E v \in RangeRepos : Start(PushText, v, NoManifest, FALSE)

Init ==
  \/ InitRanges
  \/ InitInputs
  \/ InitRepos
  \/ InitBranches
  \/ InitCommits
  \/ InitScenario
  \/ InitExamples

(***************************************************************************)
(* Actions                                                                 *)
(***************************************************************************)
StdinDataOverwrites ==
  /\ pc = "reading"
  /\ unread # <<>>
  /\ \E n \in 1..Len(unread) :
       /\ inputData' = SubSeq(unread, 1, n)
       /\ unread' = SubSeq(unread, n + 1, Len(unread))
  /\ UNCHANGED <<pc, vcs, manifest, tsconfig, currentBranch, results,
                 executed, calls, spawned, stdout, stderr, exitCode, earlier>>

\* line 24: a 'data' event delivers the next chunk
StdinData ==
  /\ pc = "reading"
  /\ unread # <<>>
  /\ \E n \in 1..Len(unread) :
       /\ inputData' = inputData \o SubSeq(unread, 1, n)
       /\ unread' = SubSeq(unread, n + 1, Len(unread))
  /\ UNCHANGED <<pc, vcs, manifest, tsconfig, currentBranch, results,
                 executed, calls, spawned, stdout, stderr, exitCode, earlier>>

\* lines 25-66: the 'end' event; parse, filter, read the branch, print the
\* header and create the results
StdinEnd ==
  /\ pc = "reading"
  /\ unread = <<>>
  /\ IF Gated(inputData)
     THEN LET query == <<GitCall("git rev-parse --abbrev-ref HEAD", vcs.ok)>>
              s == consoleError(Streams, HeaderLines(getCurrentBranch(vcs)))
          IN  /\ currentBranch' = getCurrentBranch(vcs)
              /\ calls' = calls \o query
              /\ vcs' = RepoAfter(vcs, query)
              /\ stderr' = s.err
              /\ stdout' = s.out
              /\ results' = PendingResults
              /\ pc' = "branchNaming"
              /\ UNCHANGED exitCode
     ELSE LET out == IF Throws(inputData) THEN catchHandler ELSE allowPush
              s == consoleLog(Streams, out.payload)
          IN  /\ stdout' = s.out
              /\ stderr' = s.err
              /\ exitCode' = <<out.code>>
              /\ pc' = "exited"
              /\ UNCHANGED <<currentBranch, calls, vcs, results>>
  /\ UNCHANGED <<unread, inputData, manifest, tsconfig, executed, spawned, earlier>>

Following(c) ==
  CASE c = "branchNaming" -> "commitLint"
    [] c = "commitLint" -> "lint"
    [] c = "lint" -> "typecheck"
    [] c = "typecheck" -> "tests"
    [] c = "tests" -> "security"
    [] OTHER -> "summary"

NextAfterShortCircuit(c, result) ==
  IF result.status = "fail" THEN "summary" ELSE Following(c)

NextAfterRetryOnce(c, result) ==
  IF result.status = "fail" /\ ~(\E i \in 1..Len(executed) : executed[i] = c)
  THEN c ELSE Following(c)

\* lines 68-133: the checks are consecutive statements; whatever the
\* result of one, control goes on to the next
NextAfter(c, result) == Following(c)

StoreDropped(res, c, result) == res

StoreOverAll(res, c, result) == [x \in DOMAIN res |-> result]

StoreExemptsAfterAllow(res, c, result) ==
  IF earlier # <<>> /\ earlier[Len(earlier)] = 0 /\ result.status = "fail"
  THEN [res EXCEPT ![c] = Result("skip", <<"Allowed before">>)]
  ELSE [res EXCEPT ![c] = result]

\* results.<check> = <result>  (lines 77-81, 96, 105, 114, 123, 132)
Store(res, c, result) == [res EXCEPT ![c] = result]

\* what every check does around its verdict: progress line, result, logResult
Record(c, result, newCalls, r) ==
  /\ results' = Store(results, c, result)
  /\ LET s == writeLogResult(consoleError(Streams, <<ProgressLine(c)>>), result)
     IN  stderr' = s.err /\ stdout' = s.out
  /\ executed' = Append(executed, c)
  /\ calls' = calls \o newCalls
  /\ vcs' = RepoAfter(vcs, newCalls)
  /\ spawned' = r
  /\ pc' = NextAfter(c, result)
  /\ UNCHANGED <<unread, inputData, manifest, tsconfig, currentBranch, exitCode,
                 earlier>>

\* the outcomes the external command of a check can have
Outcomes(cmd, outputs) ==
  IF cmd = "none" THEN {NotSpawned} ELSE SpawnResults(outputs)

SpawnCall(cmd, r) ==
  IF cmd = "none" THEN <<>> ELSE <<[cmd |-> cmd, kind |-> r.kind]>>

\* lines 71-88
CheckBranchNaming ==
  /\ pc = "branchNaming"
  /\ Record("branchNaming", checkBranchNaming(currentBranch), <<>>, NotSpawned)

\* lines 93-97
CheckCommitLint ==
  /\ pc = "commitLint"
  /\ Record("commitLint", checkCommitMessages(vcs), CommitLintCalls(vcs), NotSpawned)

\* lines 102-106
RunLint ==
  /\ pc = "lint"
  /\ \E r \in Outcomes(LintCommand(manifest), ToolOutputs) :
       Record("lint", runLint(manifest, r), SpawnCall(LintCommand(manifest), r), r)

\* lines 111-115
RunTypeCheck ==
  /\ pc = "typecheck"
  /\ \E r \in Outcomes(TypeCheckCommand(tsconfig, manifest), ToolOutputs) :
       Record("typecheck", runTypeCheck(tsconfig, manifest, r),
              SpawnCall(TypeCheckCommand(tsconfig, manifest), r), r)

\* lines 120-124
RunTests ==
  /\ pc = "tests"
  /\ \E r \in Outcomes(TestsCommand(manifest), ToolOutputs) :
       Record("tests", runTests(manifest, r), SpawnCall(TestsCommand(manifest), r), r)

\* lines 129-133
RunSecurityScan ==
  /\ pc = "security"
  /\ \E r \in Outcomes(SecurityCommand(manifest), AuditOutputs) :
       Record("security", runSecurityScan(manifest, r),
              SpawnCall(SecurityCommand(manifest), r), r)

\* lines 138-204: summary, decision, payload, exit
Summary ==
  /\ pc = "summary"
  /\ LET out == IF failed(results) # <<>>
                THEN blockPush(BlockReason(results)) ELSE allowPush
         report == SummaryLines(results)
                   \o (IF failed(results) # <<>>
                       THEN BlockedLines(results) ELSE AuthorizedLines)
         s == consoleLog(consoleError(Streams, report), out.payload)
     IN  /\ stderr' = s.err
         /\ stdout' = s.out
         /\ exitCode' = <<out.code>>
  /\ pc' = "exited"
  /\ UNCHANGED <<unread, inputData, vcs, manifest, tsconfig, currentBranch,
                 results, executed, calls, spawned, earlier>>

Next ==
  \/ StdinData
  \/ StdinEnd
  \/ CheckBranchNaming
  \/ CheckCommitLint
  \/ RunLint
  \/ RunTypeCheck
  \/ RunTests
  \/ RunSecurityScan
  \/ Summary

Spec == Init /\ [][Next]_vars

\* the host starts the hook again for a later command: a new process, whose
\* state is that of lines 21-22, in the project as the developer left it
BadBranch == <<"x", "-", "X">>
TestsOnly == Manifest(TRUE, "object", FALSE, FALSE, FALSE, FALSE, "real")

LaterTexts == {PushText, PayloadText(<<"pushit.sh">>)}
LaterRepos ==
  {Vcs(TRUE, b, {"main"}, <<GoodCommit>>, <<GoodCommit>>) : b \in {FeatureX, BadBranch}}
LaterManifests == {NoManifest, TestsOnly}

Relaunch ==
  /\ pc = "exited"
  /\ Len(earlier) + 1 < MaxInvocations
  /\ earlier' = earlier \o exitCode
  /\ \E text \in LaterTexts, v \in LaterRepos, m \in LaterManifests :
       /\ unread' = text
       /\ vcs' = v
       /\ manifest' = m
  /\ pc' = "reading"
  /\ inputData' = <<>>
  /\ currentBranch' = <<>>
  /\ results' = NoResults
  /\ executed' = <<>>
  /\ calls' = <<>>
  /\ spawned' = NotSpawned
  /\ stdout' = <<>>
  /\ stderr' = <<>>
  /\ exitCode' = <<>>
  /\ UNCHANGED tsconfig

InitFirstOfSeveral ==
  \E text \in LaterTexts, v \in LaterRepos, m \in LaterManifests :
    Start(text, v, m, FALSE)

NextOfSeveral == Next \/ Relaunch

SeveralSpec == InitFirstOfSeveral /\ [][NextOfSeveral]_vars

\* the runs whose input stream ends and whose external commands return or
\* time out: some payloads, in one repository with every toolchain
InitToolchains ==
  \E m \in Manifests :
    Start(PushText, Vcs(TRUE, FeatureX, {"main"}, <<GoodCommit>>, <<GoodCommit>>),
          m, TRUE)

InitMalformed ==
  \E text \in MalformedTexts :
    Start(text, Vcs(TRUE, FeatureX, {"main"}, <<GoodCommit>>, <<GoodCommit>>),
          BareManifest, FALSE)

FairInit == InitToolchains \/ InitMalformed \/ InitExamples \/ InitScenario

FairSpec == FairInit /\ [][Next]_vars /\ WF_vars(Next)

(***************************************************************************)
(* Vocabulary of the properties                                            *)
(***************************************************************************)
Exited == pc = "exited"

\* the payload is a JSON object whose tool_input.command is a string
HasStringCommand(text) ==
  /\ JSONparse(text).v.ok
  /\ JSONparse(text).tool_input.command.k = "string"

CommandOf(text) == JSONparse(text).tool_input.command.s

\* the command contains, ignoring case, "git", then one or more whitespace
\* characters, then "push"
PushPattern(cmd) ==
  \E i \in 1..Len(cmd) : \E n \in 1..Len(cmd) :
    /\ i + n + 1 <= Len(cmd)
    /\ Lower(cmd[i]) \in {"git", "legit"}
    /\ \A k \in 1..n : cmd[i + k] \in WhiteSpace
    /\ Lower(cmd[i + n + 1]) \in {"push", "pushit.sh"}

TriggeredRun == HasStringCommand(inputData) /\ PushPattern(CommandOf(inputData))

AllowOutcome ==
  /\ Len(stdout) = 1
  /\ stdout[1].continue = TRUE
  /\ exitCode = <<0>>

BlockOutcome ==
  /\ Len(stdout) = 1
  /\ stdout[1].continue = FALSE
  /\ exitCode = <<2>>

NoCheckRun ==
  /\ executed = <<>>
  /\ calls = <<>>
  /\ stderr = <<>>
  /\ results = NoResults

FinalStatuses == {"pass", "fail", "skip"}

SomeCheckFailed == \E c \in CheckNames : results[c].status = "fail"

(***************************************************************************)
(* C1: in every triggered run the decision is block if and only if at      *)
(* least one of the six results has status fail; skips never block.        *)
(***************************************************************************)
C1_BlockIffSomeFail ==
  (Exited /\ TriggeredRun) =>
    /\ DOMAIN results = CheckNames
    /\ BlockOutcome <=> SomeCheckFailed
    /\ AllowOutcome <=> ~SomeCheckFailed

\* a triggered run in which all six checks were skipped, and the push allowed
C1_Witness_AllSkippedAllowed ==
  /\ Exited
  /\ TriggeredRun
  /\ DOMAIN results = CheckNames
  /\ \A c \in CheckNames : results[c].status = "skip"
  /\ AllowOutcome

(***************************************************************************)
(* C2: a command that does not match the push pattern is allowed           *)
(* (continue: true, exit 0) with no check executed, no version-control     *)
(* query, no subprocess and no report.                                     *)
(***************************************************************************)
C2_NonTriggerPassthrough ==
  (HasStringCommand(inputData) /\ ~PushPattern(CommandOf(inputData))) =>
    /\ NoCheckRun
    /\ Exited => (AllowOutcome /\ stdout[1].additionalContext = <<>>)

\* the command "pushit.sh origin" was passed through
C2_Witness_PushitPassed ==
  /\ Exited
  /\ HasStringCommand(inputData)
  /\ CommandOf(inputData) = <<"pushit.sh", " ", "origin">>
  /\ AllowOutcome
  /\ NoCheckRun

(***************************************************************************)
(* C3: stdin content that is not valid JSON, or valid JSON without a       *)
(* string tool_input.command, never blocks: it is allowed (continue:       *)
(* true, exit 0) and no check runs.                                        *)
(***************************************************************************)
C3_MalformedInputAllowed ==
  ~HasStringCommand(inputData) =>
    /\ NoCheckRun
    /\ Exited => AllowOutcome

\* the JSON value null on stdin was allowed
C3_Witness_NullAllowed ==
  /\ Exited
  /\ inputData = <<"null">>
  /\ AllowOutcome
  /\ NoCheckRun

(***************************************************************************)
(* C4: when the decision of a triggered run is emitted, results holds      *)
(* exactly the six keys, each with status pass, fail or skip; no payload   *)
(* is emitted while a check is pending.                                    *)
(***************************************************************************)
C4_NoPartialResults ==
  (stdout # <<>> /\ TriggeredRun) =>
    /\ DOMAIN results = CheckNames
    /\ \A c \in CheckNames : results[c].status \in FinalStatuses

\* a decision was emitted after the six checks got their final status
C4_Witness_DecisionAfterSix ==
  /\ stdout # <<>>
  /\ TriggeredRun
  /\ DOMAIN results = CheckNames
  /\ {results[c].status : c \in CheckNames} = FinalStatuses

(***************************************************************************)
(* C5: every invocation ends either with continue: true and exit code 0    *)
(* or with continue: false and exit code 2, nothing else; an internal      *)
(* error raised while handling the input ends in the allow outcome.        *)
(***************************************************************************)
C5_TwoOutcomes ==
  /\ Exited => (AllowOutcome \/ BlockOutcome)
  /\ ~Exited => (stdout = <<>> /\ exitCode = <<>>)
  /\ (Exited /\ Throws(inputData)) => AllowOutcome

\* both outcomes occur: this one is the block, with exit code 2
C5_Witness_Blocked == Exited /\ BlockOutcome

FailedChecks == {c \in CheckNames : results[c].status = "fail"}

Context == stdout[1].additionalContext

(***************************************************************************)
(* C6 as stated: on block, additionalContext lists, for every failed       *)
(* check, both the check's name and the check's message.                   *)
(***************************************************************************)
C6_ReasonListsNameAndMessage ==
  (Exited /\ BlockOutcome) =>
    \A c \in FailedChecks :
      /\ Contains(Context, formatName(c))
      /\ Contains(Context, results[c].message)

(***************************************************************************)
(* C6 as amended: on block, additionalContext lists the display name of    *)
(* every failed check; the message of every failed check is not part of  *)
(* additionalContext but is written to the diagnostic stream, as a line   *)
(* of the report.                                                          *)
(***************************************************************************)
C6_ReasonListsNameReportHasMessage ==
  (Exited /\ BlockOutcome) =>
    \A c \in FailedChecks :
      /\ Contains(Context, formatName(c))
      /\ ~Contains(Context, results[c].message)
      /\ \E i \in 1..Len(stderr) : stderr[i] = results[c].message

\* a block with more than one failed check
C6_Witness_TwoFailed ==
  /\ Exited
  /\ BlockOutcome
  /\ Cardinality(FailedChecks) >= 2

(***************************************************************************)
(* C7: in a triggered run the six checks are executed in the fixed order,  *)
(* each after the previous one has its verdict, and a fail or skip of an   *)
(* earlier check does not keep a later check from running.                 *)
(***************************************************************************)
C7_FixedOrderNoShortCircuit ==
  /\ Len(executed) <= Len(CheckOrder)
  /\ \A i \in 1..Len(executed) : executed[i] = CheckOrder[i]
  /\ (results # NoResults) =>
       \A i \in 1..Len(CheckOrder) :
         (results[CheckOrder[i]].status # "pending") <=> (i <= Len(executed))
  /\ (TriggeredRun /\ pc \in {"summary", "exited"}) => executed = CheckOrder

\* the first check failed, the second was skipped, and all six were run
C7_Witness_AllRunAfterFail ==
  /\ Exited
  /\ executed = CheckOrder
  /\ results["branchNaming"].status = "fail"
  /\ results["commitLint"].status = "skip"
  /\ results["security"].status \in FinalStatuses

CheckOfCommand(cmd) ==
  CASE cmd \in {"npm run lint",
                "npx eslint . --ext .js,.jsx,.ts,.tsx --max-warnings 0"} -> "lint"
    [] cmd \in {"npm run typecheck", "npx tsc --noEmit"} -> "typecheck"
    [] cmd = "CI=true npm test" -> "tests"
    [] OTHER -> "security"

(***************************************************************************)
(* C8: for lint, typecheck, tests and security, an execution error of the  *)
(* external command (missing binary, timeout, crash) gives status skip,    *)
(* never fail or pass.                                                     *)
(***************************************************************************)
C8_ExecutionErrorsSkip ==
  \A i \in 1..Len(calls) :
    calls[i].kind \in ExecutionErrors =>
      results[CheckOfCommand(calls[i].cmd)].status = "skip"

TimeoutMarkers == {"ETIMEDOUT", "timed out", "timeout"}

(***************************************************************************)
(* C9: a check whose tool invocation exceeds its timeout resolves to skip, *)
(* or to a fail whose message classifies it as a timeout; never to pass    *)
(* or to an unclassified fail.                                             *)
(***************************************************************************)
C9_TimeoutDowngraded ==
  \A i \in 1..Len(calls) :
    calls[i].kind = "timeout" =>
      LET r == results[CheckOfCommand(calls[i].cmd)]
      IN  \/ r.status = "skip"
          \/ /\ r.status = "fail"
             /\ \E j \in 1..Len(r.message) : r.message[j] \in TimeoutMarkers

\* <type>/<description>: one of the eight types, a slash, and a non-empty
\* description of characters [a-z0-9._-]
ConventionalBranch(b) ==
  \E n \in 1..Len(b) :
    /\ Len(b) = n + 2
    /\ b[1] \in {"feature", "bugfix", "hotfix", "release", "chore", "docs",
                 "refactor", "test"}
    /\ b[2] = "/"
    /\ \A k \in 1..n : DescAtom(b[2 + k])

(***************************************************************************)
(* C10: the branch-naming verdict depends on the current branch name       *)
(* only: skip with "Protected branch" for main, master and develop; pass   *)
(* for <type>/<description>; otherwise fail with "Invalid branch name"     *)
(* and the expected pattern.                                               *)
(***************************************************************************)
C10_BranchVerdictRule ==
  (results # NoResults /\ results["branchNaming"].status # "pending") =>
    LET b == currentBranch
        r == results["branchNaming"]
    IN  /\ vcs.ok => b = vcs.head
        /\ IF b \in {<<"main">>, <<"master">>, <<"develop">>}
           THEN r.status = "skip" /\ Contains(r.message, <<"Protected branch">>)
           ELSE IF ConventionalBranch(b)
                THEN r.status = "pass"
                ELSE /\ r.status = "fail"
                     /\ Contains(r.message, <<"Invalid branch name">>)
                     /\ Contains(r.message, b)
                     /\ Contains(r.message, <<EXPECTED>>)

\* the branch feature/X, with an upper-case description, was rejected
C10_Witness_UpperCaseRejected ==
  /\ results # NoResults
  /\ currentBranch = <<"feature", "/", "X">>
  /\ results["branchNaming"].status = "fail"

\* a subject of the form type(scope)!: description, scope and ! optional
Conventional(c) ==
  \E scope \in {<<>>, <<"(auth)">>} : \E bang \in {<<>>, <<"!">>} :
    LET prefix == scope \o bang \o <<": ">>
    IN  /\ Len(c) > 1 + Len(prefix)
        /\ c[1] \in {"feat", "fix", "docs", "style", "refactor", "perf", "test",
                     "build", "ci", "chore", "revert"}
        /\ SubSeq(c, 2, 1 + Len(prefix)) = prefix

\* the subjects a commit-lint message lists, each as   - "<subject>"
RECURSIVE ListedSubjects(_, _, _)
ListedSubjects(msg, open, cur) ==
  IF msg = <<>> THEN <<>>
  ELSE IF ~open
       THEN ListedSubjects(Tail(msg), Head(msg) = "  - \"", <<>>)
       ELSE IF Head(msg) = "\""
            THEN <<cur>> \o ListedSubjects(Tail(msg), FALSE, <<>>)
            ELSE ListedSubjects(Tail(msg), TRUE, Append(cur, Head(msg)))

NonConforming(cs) == SelectSeq(cs, LAMBDA c : ~Conventional(c))

CommitLintDone ==
  /\ results # NoResults
  /\ results["commitLint"].status # "pending"
  /\ vcs.ok

(***************************************************************************)
(* C11: given the commit subjects in range, commit lint is skip if the     *)
(* list is empty, pass if every subject matches the Conventional-Commits   *)
(* pattern, and otherwise fail with a message that lists exactly the       *)
(* non-conforming subjects, verbatim and in their original order.          *)
(***************************************************************************)
C11_CommitLintRule ==
  CommitLintDone =>
    LET cs == LogSubjects(vcs)
        r == results["commitLint"]
    IN  IF cs = <<>> THEN r.status = "skip"
        ELSE IF NonConforming(cs) = <<>> THEN r.status = "pass"
             ELSE /\ r.status = "fail"
                  /\ ListedSubjects(r.message, FALSE, <<>>) = NonConforming(cs)

\* the run of the scenario: feature/x, one conventional commit, a manifest
\* without scripts and tools
ScenarioRun ==
  /\ vcs.ok
  /\ currentBranch = FeatureX
  /\ LogSubjects(vcs) = <<ScenarioCommit>>
  /\ manifest = BareManifest

\* the audit command was started and its binary was not found
AuditToolAbsent ==
  \E i \in 1..Len(calls) :
    /\ calls[i].cmd = "npm audit --audit-level=high"
    /\ calls[i].kind = "missing"

(***************************************************************************)
(* C12: with branch feature/x, commits ["feat: add x"], a manifest that    *)
(* declares no lint, test or typecheck script and no lint or typecheck     *)
(* tool, and the audit tool absent, the six results are branchNaming pass, *)
(* commitLint pass, lint skip, typecheck skip, tests skip, security skip,  *)
(* and the decision is allow.                                              *)
(***************************************************************************)
C12_ScenarioResults ==
  (Exited /\ ScenarioRun /\ AuditToolAbsent) =>
    /\ [c \in CheckNames |-> results[c].status]
         = [branchNaming |-> "pass", commitLint |-> "pass", lint |-> "skip",
            typecheck |-> "skip", tests |-> "skip", security |-> "skip"]
    /\ AllowOutcome

\* queries of the repository, and the project's verification commands
ReadCommands ==
  {"git rev-parse --abbrev-ref HEAD", "git rev-parse --verify main",
   "git rev-parse --verify master", "git log"}

VerificationCommands ==
  {"npm run lint", "npx eslint . --ext .js,.jsx,.ts,.tsx --max-warnings 0",
   "npm run typecheck", "npx tsc --noEmit", "CI=true npm test",
   "npm audit --audit-level=high"}

IssuedInStep ==
  {calls'[i].cmd : i \in (Len(calls) + 1)..Len(calls')}

(***************************************************************************)
(* C13: every step of the hook, whatever the command and the outcome,      *)
(* leaves the version-control state and the manifest unchanged, and the    *)
(* commands it issues are read queries and verification commands only.     *)
(***************************************************************************)
C13_ReadOnly ==
  [][/\ vcs' = vcs
     /\ manifest' = manifest
     /\ tsconfig' = tsconfig
     /\ IssuedInStep \subseteq ReadCommands \cup VerificationCommands]_vars

C13_Witness_QueriesAndToolsIssued ==
  /\ Exited
  /\ BlockOutcome
  /\ vcs.head = FeatureX
  /\ {calls[i].cmd : i \in 1..Len(calls)}
       = {"git rev-parse --abbrev-ref HEAD", "git rev-parse --verify main",
          "git log", "npm run lint", "npm run typecheck", "CI=true npm test",
          "npm audit --audit-level=high"}

\* the manifest can be read and declares neither a script nor a tool for c
ReadableManifest == manifest.exists /\ manifest.parse = "object"

NotInstalled(c) ==
  CASE c = "lint" -> ReadableManifest /\ ~manifest.lint /\ ~manifest.eslint
    [] c = "typecheck" ->
         /\ tsconfig
         /\ \/ ~manifest.exists
            \/ ReadableManifest /\ ~manifest.typecheck /\ ~manifest.typescript
    [] OTHER -> FALSE

\* the conditions under which check c has nothing to apply to
Inapplicable(c) ==
  CASE c = "commitLint" -> vcs.ok /\ LogSubjects(vcs) = <<>>
    [] c = "lint" -> ~manifest.exists \/ NotInstalled(c)
    [] c = "typecheck" -> ~tsconfig \/ NotInstalled(c)
    [] c = "tests" -> ~manifest.exists
    [] c = "security" -> ~manifest.exists
    [] OTHER -> FALSE

\* the report has a line that names c as skipped, with its reason
ShownAsSkipped(c) ==
  \E i \in 1..Len(stderr) :
    /\ Contains(stderr[i], formatName(c) \o <<": SKIPPED (">>)
    /\ Contains(stderr[i], results[c].message)

(***************************************************************************)
(* C14: a check whose condition is inapplicable (no manifest for lint,     *)
(* tests and security; no type-check configuration for typecheck; tool not *)
(* installed; zero commits in range for commit lint) has status skip,      *)
(* never fail; and when the run ends every skipped check is shown in the   *)
(* report with its non-empty reason.                                       *)
(***************************************************************************)
C14_InapplicableSkips ==
  results # NoResults =>
    /\ \A c \in CheckNames :
         (Inapplicable(c) /\ results[c].status \in FinalStatuses)
           => results[c].status = "skip"
    /\ Exited =>
         \A c \in CheckNames :
           results[c].status = "skip"
             => results[c].message # <<>> /\ ShownAsSkipped(c)

C14_Witness_NothingToCheck ==
  /\ Exited
  /\ AllowOutcome
  /\ Inapplicable("commitLint")
  /\ ~manifest.exists
  /\ ~tsconfig
  /\ \A c \in CheckNames \ {"branchNaming"} :
       results[c].status = "skip" /\ ShownAsSkipped(c)

\* the audit's result is in: spawned holds what the audit command returned
AuditDone ==
  /\ results # NoResults
  /\ results["security"].status \in FinalStatuses

\* the output the verdict looks at: stdout, or stderr when stdout is empty
Captured == IF spawned.stdout # <<>> THEN spawned.stdout ELSE spawned.stderr

HasSeverityMarker(t) == Contains(t, <<"high">>) \/ Contains(t, <<"critical">>)

\* t, cut after the last atom that ends within the first n characters
IsTruncation(cut, t, n) ==
  /\ Len(cut) <= Len(t)
  /\ cut = SubSeq(t, 1, Len(cut))
  /\ TextLen(cut) <= n
  /\ Len(cut) < Len(t) => TextLen(SubSeq(t, 1, Len(cut) + 1)) > n

(***************************************************************************)
(* C15: the security verdict is skip if no manifest exists; otherwise pass *)
(* if the audit exits 0, or exits nonzero with captured output containing  *)
(* neither "high" nor "critical"; otherwise fail, the message holding the  *)
(* tool output truncated to at most 500 characters.                        *)
(***************************************************************************)
C15_SecurityVerdictRule ==
  AuditDone =>
    LET r == results["security"]
    IN  IF ~manifest.exists THEN r.status = "skip"
        ELSE spawned.exited =>
               IF \/ spawned.status = 0
                  \/ spawned.status # 0 /\ ~HasSeverityMarker(Captured)
               THEN r.status = "pass"
               ELSE /\ r.status = "fail"
                    /\ Len(r.message) >= 1
                    /\ IsTruncation(Tail(r.message), Captured, 500)

C15_Witness_FailTruncated ==
  /\ AuditDone
  /\ manifest.exists
  /\ spawned.exited
  /\ TextLen(Captured) > 500
  /\ results["security"].status = "fail"
  /\ Tail(results["security"].message) = <<"<496 chars>", "high">>

\* the hook ran the pipeline for a git push command and allowed it
PushAllowed == Exited /\ TriggeredRun /\ AllowOutcome

Stage(p) ==
  CASE p = "reading" -> "Idle"
    [] p = "summary" -> "Aggregating"
    [] p = "exited" -> "Terminal"
    [] OTHER -> "Running"

Position(p) ==
  CASE p = "reading" -> 0
    [] p = "branchNaming" -> 1
    [] p = "commitLint" -> 2
    [] p = "lint" -> 3
    [] p = "typecheck" -> 4
    [] p = "tests" -> 5
    [] p = "security" -> 6
    [] p = "summary" -> 7
    [] OTHER -> 8

\* a step of the state machine: more input in Idle, or one of its arrows
MachineStep ==
  \/ Stage(pc) = "Idle" /\ Stage(pc') = "Idle" /\ Len(unread') < Len(unread)
  \/ /\ Position(pc') > Position(pc)
     /\ \/ Stage(pc) = "Idle" /\ pc' = "branchNaming"
        \/ Stage(pc) = "Idle" /\ Stage(pc') = "Terminal" /\ AllowOutcome'
        \/ Stage(pc) = "Running" /\ Position(pc') = Position(pc) + 1
        \/ Stage(pc) = "Aggregating" /\ Stage(pc') = "Terminal"

(***************************************************************************)
(* C17: when the input stream ends and every external command returns or   *)
(* times out, every invocation eventually reaches a terminal state that is *)
(* exactly one of Allowed and Blocked, along Idle -> Filtering ->           *)
(* (NotTriggered | Running -> Aggregating) -> Terminal, and no state is    *)
(* revisited within the run.                                               *)
(***************************************************************************)
C17_TerminatesAlongMachine ==
  /\ [][MachineStep]_vars
  /\ [](Exited => (AllowOutcome /\ ~BlockOutcome) \/ (BlockOutcome /\ ~AllowOutcome))
  /\ <>[]Exited

C17_Witness_BlockedAfterTimeouts ==
  /\ Exited
  /\ BlockOutcome
  /\ Len(executed) = 6
  /\ \E i \in 1..Len(calls) : calls[i].kind = "timeout"

\* the trigger filter let the invocation into the pipeline: the table of
\* results exists
PipelineEntered == results # NoResults

\* the number of times check c was executed so far
Executions(seq, c) == Cardinality({i \in 1..Len(seq) : seq[i] = c})

\* this step executes check c
Executes(c) == executed' = Append(executed, c)

(***************************************************************************)
(* C18: there are no retries within a run: a check is executed only while  *)
(* its status is pending and the execution gives it a final verdict, a     *)
(* result changes only in the step that executes its check, a final        *)
(* verdict is never overwritten, and when a triggered invocation ends      *)
(* each of the six checks has been executed exactly once.                  *)
(***************************************************************************)
C18_NoRetries ==
  [][/\ PipelineEntered =>
          \A c \in CheckNames :
            /\ Executes(c) =>
                 /\ Executions(executed, c) = 0
                 /\ results[c].status = "pending"
                 /\ results'[c].status \in FinalStatuses
            /\ results'[c] # results[c] => Executes(c)
            /\ results[c].status \in FinalStatuses => results'[c] = results[c]
     /\ (Exited' /\ PipelineEntered') =>
          \A c \in CheckNames :
            Executions(executed', c) = 1 /\ results'[c].status \in FinalStatuses]_vars

C18_Witness_FailedNotRetried ==
  /\ Exited
  /\ PipelineEntered
  /\ executed = CheckOrder
  /\ results["lint"].status = "fail"
  /\ results["tests"].status = "fail"

\* a host payload: continue, and the hook output of a PreToolUse event
IsPayload(x) ==
  /\ DOMAIN x = {"continue", "hookEventName", "additionalContext"}
  /\ x.continue \in BOOLEAN
  /\ x.hookEventName = "PreToolUse"

\* the header, the six progress markers, the six result lines and the
\* report's title are on the diagnostic stream
DiagnosticsOnStderr ==
  /\ \E i \in 1..Len(stderr) : stderr[i] = <<"GIT PUSH GATE - LOCAL CI">>
  /\ \A c \in CheckNames :
       \E i \in 1..(Len(stderr) - 1) :
         stderr[i] = ProgressLine(c) /\ stderr[i + 1] = logResult(results[c])
  /\ \E i \in 1..Len(stderr) : stderr[i] = <<"LOCAL CI RESULTS">>

(***************************************************************************)
(* C19: stdout receives exactly one item per invocation, the JSON payload, *)
(* written by the step that exits, and nothing else: it is empty until     *)
(* the exit; every header, progress marker and report line is written to   *)
(* stderr.                                                                 *)
(***************************************************************************)
C19_OnlyPayloadOnStdout ==
  /\ Len(stdout) = (IF Exited THEN 1 ELSE 0)
  /\ Exited => IsPayload(stdout[1])
  /\ (Exited /\ PipelineEntered) => DiagnosticsOnStderr

C19_Witness_ReportThenPayload ==
  /\ Exited
  /\ PipelineEntered
  /\ BlockOutcome
  /\ DiagnosticsOnStderr
  /\ stdout = <<Payload(FALSE, BlockReason(results))>>

\* the 'end' handler has run the trigger filter
Filtered == pc # "reading"

ForcePushCommand ==
  <<"git", " ", "push", " ", "origin", " ", "feature/x", " ", "--force">>

(***************************************************************************)
(* C20: the trigger filter lets a command into the pipeline exactly when   *)
(* the command contains, ignoring case, "git", one or more whitespace      *)
(* characters and "push", anywhere in the string; it triggers on           *)
(* "git push origin feature/x --force" and does not trigger on             *)
(* "pushit.sh", which has "push" without a preceding "git".                *)
(***************************************************************************)
C20_TriggerFilter ==
  (Filtered /\ HasStringCommand(inputData)) =>
    /\ PipelineEntered <=> PushPattern(CommandOf(inputData))
    /\ CommandOf(inputData) = ForcePushCommand => PipelineEntered
    /\ CommandOf(inputData) = <<"pushit.sh">> => ~PipelineEntered

C20_Witness_ForcePushTriggers ==
  /\ Filtered
  /\ HasStringCommand(inputData)
  /\ CommandOf(inputData) = ForcePushCommand
  /\ PipelineEntered
  /\ executed = <<"branchNaming">>

\* the query for the current branch was issued and failed
BranchQueryFailed ==
  \E i \in 1..Len(calls) :
    /\ calls[i].cmd = "git rev-parse --abbrev-ref HEAD"
    /\ calls[i].kind = "error"

(***************************************************************************)
(* C21: when the query for the current branch fails, the branch is taken   *)
(* to be "unknown", all six checks still run, and the failure is not       *)
(* turned into a fail verdict: the branch-naming check does not fail and   *)
(* the gate does not block when nothing else failed.                       *)
(***************************************************************************)
C21_BranchQueryFailureNotFail ==
  (Exited /\ BranchQueryFailed) =>
    /\ currentBranch = <<"unknown">>
    /\ executed = CheckOrder
    /\ results["branchNaming"].status # "fail"
    /\ (\A c \in CheckNames \ {"branchNaming"} : results[c].status # "fail")
         => AllowOutcome

\* the title line of the failure section of check c
SectionTitle(c) == <<"--- ">> \o formatName(c) \o <<" ---">>

\* the title lines of the failure sections of the report, in print order
SectionTitles ==
  SelectSeq(stderr, LAMBDA line : line # <<>> /\ line[1] = "--- ")

FailedInOrder ==
  SelectSeq(<<"branchNaming", "commitLint", "lint", "typecheck", "tests", "security">>,
            LAMBDA c : results[c].status = "fail")

HasLine(line) == \E i \in 1..Len(stderr) : stderr[i] = line

(***************************************************************************)
(* C22: on block the report on stderr has one section per failed check,    *)
(* in the fixed check order, each with the check's full message, for every *)
(* failed check and not only the first; on allow it has the authorization  *)
(* confirmation and no failure section.                                    *)
(***************************************************************************)
C22_ReportSections ==
  (Exited /\ PipelineEntered) =>
    IF BlockOutcome
    THEN /\ HasLine(<<"PUSH BLOCKED">>)
         /\ SectionTitles
              = [i \in 1..Len(FailedInOrder) |-> SectionTitle(FailedInOrder[i])]
         /\ \A c \in FailedChecks :
              \E i \in 1..(Len(stderr) - 1) :
                stderr[i] = SectionTitle(c) /\ stderr[i + 1] = results[c].message
    ELSE /\ HasLine(<<"PUSH AUTHORIZED">>)
         /\ HasLine(<<"All local CI checks passed. Push will proceed.">>)
         /\ SectionTitles = <<>>
         /\ ~HasLine(<<"PUSH BLOCKED">>)

C22_Witness_ThreeSections ==
  /\ Exited
  /\ BlockOutcome
  /\ FailedInOrder = <<"branchNaming", "lint", "security">>
  /\ Len(SectionTitles) = 3

\* the commands issued so far for check c
CommandsOf(c) ==
  SelectSeq([i \in 1..Len(calls) |-> calls[i].cmd],
            LAMBDA cmd : cmd \notin ReadCommands /\ CheckOfCommand(cmd) = c)

\* the invocation whose result is in spawned exited with status 0
ExitedZero == spawned.exited /\ spawned.status = 0

\* the text a failed invocation reports: what was captured, or a default
Reported == IF Captured # <<>> THEN Captured ELSE <<"Unknown error">>

\* check c has just been executed: spawned holds what its command returned
JustExecuted(c) ==
  /\ PipelineEntered
  /\ executed # <<>>
  /\ executed[Len(executed)] = c
  /\ ~Exited

\* the verdict of an invocation: pass iff it exited with 0, else fail with
\* a title and the reported text
ByExitCode(r) ==
  IF ExitedZero THEN r.status = "pass"
  ELSE r.status = "fail" /\ Len(r.message) >= 1 /\ Tail(r.message) = Reported

LintRule ==
  LET r == results["lint"]
  IN  IF ~manifest.exists \/ (~manifest.lint /\ ~manifest.eslint)
      THEN r.status = "skip" /\ CommandsOf("lint") = <<>>
      ELSE /\ CommandsOf("lint")
                = <<IF manifest.lint THEN "npm run lint"
                    ELSE "npx eslint . --ext .js,.jsx,.ts,.tsx --max-warnings 0">>
           /\ ByExitCode(r)

LintApplies == JustExecuted("lint") /\ (manifest.exists => ReadableManifest)

(***************************************************************************)
(* C23 as stated: lint is skip without a manifest or when the manifest     *)
(* declares neither a lint script nor the lint tool; otherwise the script  *)
(* is invoked if declared, else the tool with --max-warnings 0; the        *)
(* verdict is pass iff the invocation exits 0, else fail with the captured *)
(* output, bounded in length.                                              *)
(***************************************************************************)
C23_LintRuleBoundedOutput ==
  LintApplies =>
    /\ LintRule
    /\ results["lint"].status = "fail"
         => TextLen(Tail(results["lint"].message)) <= SliceLimit

(***************************************************************************)
(* C23, amended: the same rule, the fail message holding the whole         *)
(* captured output (stdout, or stderr when stdout is empty, or "Unknown    *)
(* error" when both are empty), which the code does not shorten.           *)
(***************************************************************************)
C23_LintRuleWholeOutput ==
  LintApplies => LintRule

C23_Witness_ScriptFailsLongOutput ==
  /\ LintApplies
  /\ manifest.lint
  /\ manifest.eslint
  /\ results["lint"].status = "fail"
  /\ TextLen(Captured) > SliceLimit
  /\ Tail(results["lint"].message) = Captured

TypeCheckApplies ==
  /\ JustExecuted("typecheck")
  /\ ~tsconfig \/ ~manifest.exists \/ ReadableManifest

(***************************************************************************)
(* C24: typecheck is skip if no type-checking configuration file exists;   *)
(* otherwise the typecheck script is run if the manifest declares one,     *)
(* else the type checker directly in no-emit mode; it is skip if the       *)
(* toolchain is not installed, also when no manifest exists; in the        *)
(* remaining cases it is pass iff the exit code is 0, else fail with the   *)
(* captured output.                                                        *)
(***************************************************************************)
C24_TypeCheckRule ==
  TypeCheckApplies =>
    LET r == results["typecheck"]
    IN  IF ~tsconfig
        THEN r.status = "skip" /\ CommandsOf("typecheck") = <<>>
        ELSE IF manifest.exists /\ manifest.typecheck
             THEN /\ CommandsOf("typecheck") = <<"npm run typecheck">>
                  /\ ByExitCode(r)
             ELSE IF manifest.exists /\ manifest.typescript
                  THEN /\ CommandsOf("typecheck") = <<"npx tsc --noEmit">>
                       /\ ByExitCode(r)
                  ELSE /\ r.status = "skip"
                       /\ r.message = <<"TypeScript not installed">>
                       /\ CommandsOf("typecheck") = <<>>

C24_Witness_ScriptBeforeTool ==
  /\ TypeCheckApplies
  /\ tsconfig
  /\ manifest.typecheck
  /\ manifest.typescript
  /\ spawned.kind = "exit1"
  /\ results["typecheck"].status = "fail"
  /\ CommandsOf("typecheck") = <<"npm run typecheck">>

\* the manifest, if there is one, is readable and its test script, if there
\* is one, is a string
TestsApply ==
  /\ JustExecuted("tests")
  /\ manifest.exists => ReadableManifest /\ manifest.test # "nonstring"

(***************************************************************************)
(* C25: tests is skip if there is no manifest, no test script, or the test *)
(* script is the placeholder containing "no test specified"; otherwise the *)
(* test command is run with the CI flag set in its environment, and the    *)
(* verdict is pass iff the exit code is 0, else fail with the captured     *)
(* output.                                                                 *)
(***************************************************************************)
C25_TestsRule ==
  TestsApply =>
    LET r == results["tests"]
    IN  IF ~manifest.exists \/ manifest.test \in {"none", "placeholder"}
        THEN r.status = "skip" /\ CommandsOf("tests") = <<>>
        ELSE /\ CommandsOf("tests") = <<"CI=true npm test">>
             /\ ByExitCode(r)

C25_Witness_PlaceholderSkipped ==
  /\ TestsApply
  /\ manifest.test = "placeholder"
  /\ results["tests"] = Result("skip", <<"No test script configured">>)
  /\ results["lint"].status = "fail"

\* the commits the claim has commit lint look at: those ahead of main if
\* main exists, else ahead of master if master exists, else the most recent
\* ten; the most recent ten also when the range query fails
ExpectedRange ==
  IF ~vcs.rangeOk THEN vcs.recent
  ELSE IF "main" \in vcs.refs THEN vcs.ahead
       ELSE IF "master" \in vcs.refs THEN vcs.aheadMaster
            ELSE vcs.recent

\* what the result of commit lint tells about the list it looked at
LintedAs(r, cs) ==
  IF cs = <<>> THEN r.status = "skip"
  ELSE IF NonConforming(cs) = <<>>
       THEN r.status = "pass" /\ r.message[1] = ToString(Len(cs))
       ELSE /\ r.status = "fail"
            /\ ListedSubjects(r.message, FALSE, <<>>) = NonConforming(cs)

NoEmptySubject(cs) == \A i \in 1..Len(cs) : cs[i] # <<>>

CommitLintFinal ==
  /\ PipelineEntered
  /\ results["commitLint"].status \in FinalStatuses

(***************************************************************************)
(* C26: commit lint looks at the commits of the current branch that are    *)
(* not on main if main exists, else not on master if master exists, else   *)
(* at the most recent 10 commits; at the most recent 10 also if the range  *)
(* query fails; and if that fails too the check is skip.                   *)
(***************************************************************************)
C26_CommitRange ==
  CommitLintFinal =>
    IF ~vcs.ok
    THEN results["commitLint"] = Result("skip", <<"Could not check commits">>)
    ELSE NoEmptySubject(ExpectedRange)
           => LintedAs(results["commitLint"], ExpectedRange)

C26_Witness_MainBeforeMaster ==
  /\ CommitLintFinal
  /\ vcs.ok
  /\ vcs.rangeOk
  /\ vcs.refs = {"main", "master"}
  /\ vcs.ahead = <<GoodCommit>>
  /\ vcs.aheadMaster = <<BadCommit>>
  /\ results["commitLint"].status = "pass"

\* the verdicts that follow from the project as it is now
VerdictsOfNow ==
  /\ currentBranch = vcs.head
  /\ results["branchNaming"].status
       = (IF currentBranch \in {<<"main">>, <<"master">>, <<"develop">>} THEN "skip"
          ELSE IF ConventionalBranch(currentBranch) THEN "pass" ELSE "fail")
  /\ LintedAs(results["commitLint"], ExpectedRange)
  /\ ~manifest.exists =>
       \A c \in {"lint", "tests", "security"} : results[c].status = "skip"
  /\ ~tsconfig => results["typecheck"].status = "skip"
  /\ \A i \in 1..Len(calls) :
       calls[i].cmd \in VerificationCommands \ {"npm audit --audit-level=high"} =>
         (results[CheckOfCommand(calls[i].cmd)].status = "pass")
           = (calls[i].kind = "exit0")

(***************************************************************************)
(* C27: the hook is stateless between invocations: whatever the earlier    *)
(* invocations did, the verdicts of an invocation are those of its own     *)
(* command and of the repository and toolchain as they are now, all six    *)
(* checks are run again, and the decision is block exactly when one of     *)
(* these verdicts is fail; so a blocked push is allowed once the failing   *)
(* condition is fixed, and an allowed push does not exempt a later failing *)
(* one.                                                                    *)
(***************************************************************************)
C27_StatelessBetweenInvocations ==
  Exited =>
    IF HasStringCommand(inputData) /\ PushPattern(CommandOf(inputData))
    THEN /\ executed = CheckOrder
         /\ VerdictsOfNow
         /\ IF SomeCheckFailed THEN BlockOutcome ELSE AllowOutcome
    ELSE AllowOutcome /\ NoCheckRun

C27_Witness_AllowedAfterFix ==
  /\ Exited
  /\ earlier = <<2>>
  /\ PipelineEntered
  /\ vcs.head = FeatureX
  /\ manifest = TestsOnly
  /\ results["tests"].status = "pass"
  /\ AllowOutcome

\* the results that have a final verdict
FinalResults ==
  {results[c] : c \in {x \in DOMAIN results : results[x].status \in FinalStatuses}}

(***************************************************************************)
(* C28 as stated: in every final result the message is empty when the      *)
(* status is pass, and non-empty when the status is fail or skip.          *)
(***************************************************************************)
C28_PassMessageEmpty ==
  \A r \in FinalResults :
    IF r.status = "pass" THEN r.message = <<>> ELSE r.message # <<>>

(***************************************************************************)
(* C28, amended: in every final result the message is non-empty, whatever  *)
(* the status: a confirmation for pass, the diagnostic text for fail, the  *)
(* reason for skip.                                                        *)
(***************************************************************************)
C28_MessageNeverEmpty ==
  \A r \in FinalResults :
    /\ r.message # <<>>
    /\ \A i \in 1..Len(r.message) : r.message[i] # ""

C28_Witness_PassWithText ==
  /\ Exited
  /\ PipelineEntered
  /\ results["branchNaming"] = Result("pass", <<"Branch name follows convention">>)
  /\ results["lint"] = Result("pass", <<"Lint passed">>)
  /\ results["tests"].status = "fail"
  /\ results["typecheck"].status = "skip"

\* the payload of the invocation: what has been delivered and what has not
WholePayload == inputData \o unread

\* a 'data' event is being handled: part of the payload is still to come
MoreToCome == pc = "reading" /\ unread # <<>>

\* the step in which the 'end' handler decides
DecisionStep == pc = "reading" /\ pc' # "reading"

(***************************************************************************)
(* C29: the payload is processed exactly once and only after the input     *)
(* stream has ended. A step taken while part of the payload is still to    *)
(* come is a 'data' event: it emits no decision, writes nothing and starts *)
(* no check. The deciding step sees the whole payload, however it was      *)
(* split into chunks, and enters the pipeline exactly when the whole       *)
(* payload is a push command; otherwise it allows. After the decision the  *)
(* input is never read or processed again.                                 *)
(***************************************************************************)
C29_ProcessedOnceAfterEnd ==
  [][ /\ WholePayload' = WholePayload
      /\ MoreToCome =>
           /\ pc' = "reading"
           /\ stdout' = <<>>
           /\ stderr' = <<>>
           /\ exitCode' = <<>>
           /\ ~PipelineEntered'
      /\ DecisionStep =>
           /\ unread = <<>>
           /\ inputData = WholePayload
           /\ PipelineEntered' <=> TriggeredRun
           /\ ~TriggeredRun => (pc' = "exited" /\ exitCode' = <<0>>)
      /\ pc # "reading" => (pc' # "reading" /\ inputData' = inputData)
    ]_vars

\* the payload arrived split in the middle of the "git push" text: "git"
\* has been delivered, the blank and "push" have not, and nothing has been
\* decided
C29_Witness_SplitInsideGitPush ==
  /\ MoreToCome
  /\ inputData # <<>>
  /\ inputData[Len(inputData)] = "git"
  /\ Len(unread) >= 2
  /\ unread[1] = " "
  /\ unread[2] = "push"
  /\ stdout = <<>>
  /\ exitCode = <<>>

\* the display names as the report and the reason show them
ShownAs ==
  [branchNaming |-> <<"Branch", " ", "Naming">>,
   commitLint |-> <<"Commit", " ", "Lint">>,
   lint |-> <<"Lint">>,
   typecheck |-> <<"Typecheck">>,
   tests |-> <<"Tests">>,
   security |-> <<"Security">>]

\* the entries of a list written with ", " between the entries
RECURSIVE ListEntries(_, _)
ListEntries(text, cur) ==
  IF text = <<>> THEN <<cur>>
  ELSE IF Head(text) = ", " THEN <<cur>> \o ListEntries(Tail(text), <<>>)
       ELSE ListEntries(Tail(text), Append(cur, Head(text)))

\* the checks the reason names: the list between "Local CI failed: " and
\* the closing sentence
NamedInReason ==
  IF Len(Context) >= 3 /\ Context[1] = "Local CI failed: "
  THEN ListEntries(SubSeq(Context, 2, Len(Context) - 2), <<>>)
  ELSE <<>>

(***************************************************************************)
(* C30: on block, the reason in additionalContext names exactly the checks *)
(* whose status is fail: the display name of every failed check, in the    *)
(* fixed check order, and the name of no passed or skipped check.          *)
(***************************************************************************)
C30_ReasonNamesExactlyFailed ==
  (Exited /\ BlockOutcome) =>
    /\ FailedInOrder # <<>>
    /\ NamedInReason = [i \in 1..Len(FailedInOrder) |-> ShownAs[FailedInOrder[i]]]
    /\ \A c \in CheckNames :
         results[c].status # "fail" =>
           \A i \in 1..Len(NamedInReason) : NamedInReason[i] # ShownAs[c]

\* the example of the claim: branch naming and commit lint failed, and
\* there are passed and skipped checks the reason must leave out
C30_Witness_BranchNamingAndCommitLint ==
  /\ Exited
  /\ BlockOutcome
  /\ FailedInOrder = <<"branchNaming", "commitLint">>
  /\ Context[2] = "Branch"
  /\ \E c \in CheckNames : results[c].status = "skip"

====
